---- MODULE Spec2Model ----
(***************************************************************************)
(* A model of the two programs of the repository:                          *)
(*   - unistream-architecture-analyzer/analyze_architecture.py             *)
(*     (ArchitectureAnalyzer: parse, dependency graph, four rule checks,   *)
(*      print_violations)                                                  *)
(*   - unistream-code-validator/validate_code.py                           *)
(*     (CodeValidator: validate_directory, run_check, is_allowed_context,  *)
(*      print_summary)                                                     *)
(* Python strings are sequences of one-character strings, so substring     *)
(* tests, str.replace and regular-expression matching are computed, not    *)
(* assumed.                                                                *)
(***************************************************************************)
EXTENDS Integers, Sequences, FiniteSets, TLC

VARIABLES pc, directory, check_types, python_files, rules, modules,
          dependency_graph, violations, findings, file_idx, exit_code, probe

vars == <<pc, directory, check_types, python_files, rules, modules,
          dependency_graph, violations, findings, file_idx, exit_code, probe>>

(***************************************************************************)
(* Bounds of the model.                                                    *)
(***************************************************************************)
\* the number of import statements of the whole corpus
MaxImports == 3
\* the number of lines of a file scanned by the validator
MaxFileLines == 4
\* the number of lines of a file in the runs that are followed to the report
MaxRunLines == 2
\* the largest configured threshold of the complexity check
MaxThreshold == 3

(***************************************************************************)
(* Python values.                                                          *)
(***************************************************************************)
\* Python's None, where a string is expected
None == "None"

\* dict.get(key, default) on a dict modelled as a function
Get(d, key, default) == IF key \in DOMAIN d THEN d[key] ELSE default

\* the empty dict
EmptyDict == [k \in {} |-> 0]

\* the elements of a sequence
Range(s) == {s[i] : i \in DOMAIN s}

(***************************************************************************)
(* str operations.                                                         *)
(***************************************************************************)
\* t[i .. i+len(s)-1] == s
OccursAt(s, t, i) ==
    /\ i >= 1
    /\ i + Len(s) - 1 <= Len(t)
    /\ \A k \in 1..Len(s) : t[i + k - 1] = s[k]

\* Python `s in t` for strings
StrIn(s, t) == \E i \in 1..(Len(t) + 1) : OccursAt(s, t, i)

\* Python t.endswith(s)
StrEndsWith(t, s) == Len(s) <= Len(t) /\ OccursAt(s, t, Len(t) - Len(s) + 1)

\* Python s.replace(old, new) from position i on: leftmost, non-overlapping
RECURSIVE ReplaceFrom(_, _, _, _)
ReplaceFrom(s, old, new, i) ==
    IF i > Len(s) THEN << >>
    ELSE IF OccursAt(old, s, i)
         THEN new \o ReplaceFrom(s, old, new, i + Len(old))
         ELSE <<s[i]>> \o ReplaceFrom(s, old, new, i + 1)

\* Python s.replace(old, new), old not empty
StrReplace(s, old, new) == ReplaceFrom(s, old, new, 1)

\* ''.join(seq of strings)
RECURSIVE StrJoin(_)
StrJoin(ss) == IF ss = << >> THEN << >> ELSE Head(ss) \o StrJoin(Tail(ss))

\* code point of the characters the model uses (str comparison is by code point)
Ord(c) ==
    CASE c = "\n" -> 10
      [] c = "#" -> 35
      [] c = "*" -> 42
      [] c = "." -> 46
      [] c = "/" -> 47
      [] c = "2" -> 50
      [] c = "[" -> 91
      [] c = "]" -> 93
      [] c = "^" -> 94
      [] c = "a" -> 97
      [] c = "b" -> 98
      [] c = "c" -> 99
      [] c = "d" -> 100
      [] c = "e" -> 101
      [] c = "f" -> 102
      [] c = "h" -> 104
      [] c = "i" -> 105
      [] c = "m" -> 109
      [] c = "n" -> 110
      [] c = "o" -> 111
      [] c = "p" -> 112
      [] c = "r" -> 114
      [] c = "s" -> 115
      [] c = "t" -> 116
      [] c = "x" -> 120
      [] c = "y" -> 121
      [] OTHER -> 0

\* Python s < t for strings
RECURSIVE StrLess(_, _)
StrLess(s, t) ==
    IF t = << >> THEN FALSE
    ELSE IF s = << >> THEN TRUE
    ELSE IF Head(s) = Head(t) THEN StrLess(Tail(s), Tail(t))
    ELSE Ord(Head(s)) < Ord(Head(t))

(***************************************************************************)
(* re: the part of the regular-expression language the rule patterns of    *)
(* the model use.  An atom is a literal character, '.', or '[^c]'; an atom *)
(* may be followed by one '*'.  A '*' with nothing to repeat, a second '*' *)
(* and an unterminated '[' raise re.error.                                 *)
(***************************************************************************)
\* the length of the atom at position i of pattern p, 0 when re raises an error
AtomLen(p, i) ==
    IF p[i] = "*" THEN 0
    ELSE IF p[i] = "["
         THEN IF i + 3 <= Len(p) /\ p[i + 1] = "^" /\ p[i + 3] = "]" THEN 4 ELSE 0
         ELSE 1

\* re.compile(p) does not raise re.error
RECURSIVE CompilesFrom(_, _)
CompilesFrom(p, i) ==
    IF i > Len(p) THEN TRUE
    ELSE LET n == AtomLen(p, i)
         IN  /\ n > 0
             /\ IF i + n <= Len(p) /\ p[i + n] = "*"
                THEN CompilesFrom(p, i + n + 1)
                ELSE CompilesFrom(p, i + n)

Compiles(p) == CompilesFrom(p, 1)

\* the compiled pattern: a sequence of [kind, ch, star]
RECURSIVE TokensFrom(_, _)
TokensFrom(p, i) ==
    IF i > Len(p) THEN << >>
    ELSE LET n == AtomLen(p, i)
             star == i + n <= Len(p) /\ p[i + n] = "*"
             atom == IF n = 4 THEN [kind |-> "not", ch |-> p[i + 2], star |-> star]
                     ELSE IF p[i] = "." THEN [kind |-> "any", ch |-> ".", star |-> star]
                     ELSE [kind |-> "lit", ch |-> p[i], star |-> star]
         IN  <<atom>> \o TokensFrom(p, IF star THEN i + n + 1 ELSE i + n)

\* whether one character is accepted by an atom
AtomAccepts(t, c) ==
    CASE t.kind = "lit" -> c = t.ch
      [] t.kind = "any" -> c # "\n"
      [] t.kind = "not" -> c # t.ch

\* tokens k.. match some prefix of s[i..]
RECURSIVE MatchFrom(_, _, _, _)
MatchFrom(toks, k, s, i) ==
    IF k > Len(toks) THEN TRUE
    ELSE LET t == toks[k]
         IN  IF t.star
             THEN \/ MatchFrom(toks, k + 1, s, i)
                  \/ (i <= Len(s) /\ AtomAccepts(t, s[i]) /\ MatchFrom(toks, k, s, i + 1))
             ELSE i <= Len(s) /\ AtomAccepts(t, s[i]) /\ MatchFrom(toks, k + 1, s, i + 1)

\* re.match(p, s) is not None: anchored at the start only
ReMatch(p, s) == MatchFrom(TokensFrom(p, 1), 1, s, 1)

\* re.search(p, s) is not None
ReSearch(p, s) == \E i \in 1..(Len(s) + 1) : MatchFrom(TokensFrom(p, 1), 1, s, i)

(***************************************************************************)
(* pathlib.                                                                *)
(***************************************************************************)
\* the index of the last occurrence of character c in s, 0 when there is none
LastIndexOf(s, c) ==
    LET I == {i \in 1..Len(s) : s[i] = c}
    IN  IF I = {} THEN 0 ELSE CHOOSE i \in I : \A j \in I : j <= i

\* directory / rel ; the directory '.' is the empty string
JoinPath(dir, rel) == IF dir = << >> THEN rel ELSE dir \o <<"/">> \o rel

\* str(path.with_suffix(''))
WithSuffixStripped(path) ==
    LET slash == LastIndexOf(path, "/")
        dot == LastIndexOf(path, ".")
    IN  IF dot > slash + 1 /\ dot < Len(path) THEN SubSeq(path, 1, dot - 1) ELSE path

\* path.is_absolute()
IsAbsolute(path) == Len(path) > 0 /\ path[1] = "/"

(***************************************************************************)
(* ArchitectureAnalyzer (analyze_architecture.py).                         *)
(*                                                                         *)
(* python_files : the files found by directory.glob, in enumeration order  *)
(*                (after FindPythonFiles: without the excluded ones);      *)
(*                each is what ast.parse yields for it: [rel, parses,      *)
(*                imports, functions, content]                             *)
(* rules        : the loaded YAML: [layers, complexity_thresholds,         *)
(*                duplicate_logic]                                         *)
(* modules      : self.modules, a dict in insertion order: a sequence of   *)
(*                Module records keyed by name                             *)
(* dependency_graph : self.dependency_graph, a defaultdict(set):           *)
(*                [keys: insertion order, adj: key -> set of names]        *)
(* violations   : self.violations                                          *)
(***************************************************************************)
\* a sequence of sequences, concatenated
RECURSIVE Concat(_)
Concat(ss) == IF ss = << >> THEN << >> ELSE Head(ss) \o Concat(Tail(ss))

\* the injective sequences enumerating a finite set: the orders in which a
\* Python set of str may be iterated (the order depends on the hash seed)
Orders(S) ==
    {f \in [1..Cardinality(S) -> S] : \A i, j \in 1..Cardinality(S) : f[i] = f[j] => i = j}

\* raised by re when a pattern does not compile
ReError == "re.error"

\* dir_pattern.replace('**', '.*').replace('*', '[^/]*')
DirPatternRegex(dir_pattern) ==
    StrReplace(StrReplace(dir_pattern, <<"*", "*">>, <<".", "*">>),
               <<"*">>, <<"[", "^", "/", "]", "*">>)

\* the (layer_name, dir_pattern) pairs in the order determine_layer tries them
LayerPatterns(layers) ==
    Concat([l \in 1..Len(layers) |->
              [d \in 1..Len(layers[l].directories) |->
                 [layer |-> layers[l].name, pattern |-> layers[l].directories[d]]]])

\* determine_layer with the return inside the loops dropped: the last layer
\* with a matching pattern
RECURSIVE LastLayerFrom(_, _, _)
LastLayerFrom(pairs, i, rel_path) ==
    IF i > Len(pairs) THEN None
    ELSE LET pattern == DirPatternRegex(pairs[i].pattern)
             later == LastLayerFrom(pairs, i + 1, rel_path)
         IN  IF ~Compiles(pattern) THEN ReError
             ELSE IF later # None THEN later
             ELSE IF ReMatch(pattern, rel_path) THEN pairs[i].layer
             ELSE None

\* determine_layer from pair i on: the first layer with a matching pattern,
\* None when no pattern matches, ReError when a pattern tried does not compile
RECURSIVE FirstLayerFrom(_, _, _)
FirstLayerFrom(pairs, i, rel_path) ==
    IF i > Len(pairs) THEN None
    ELSE LET pattern == DirPatternRegex(pairs[i].pattern)
         IN  IF ~Compiles(pattern) THEN ReError
             ELSE IF ReMatch(pattern, rel_path) THEN pairs[i].layer
             ELSE FirstLayerFrom(pairs, i + 1, rel_path)

determine_layer(rel_path) == FirstLayerFrom(LayerPatterns(rules.layers), 1, rel_path)

\* the number of '\n' in a string
NewlineCount(content) == Cardinality({i \in 1..Len(content) : content[i] = "\n"})

\* parse_module: the Module built for a file
Module(f) ==
    [path |-> JoinPath(directory, f.rel),
     name |-> f.rel,
     imports |-> f.imports,
     functions |-> f.functions,
     line_count |-> NewlineCount(f.content) + 1,
     layer |-> determine_layer(f.rel)]

\* parse_module returns a Module (no exception inside its try block)
ParseSucceeds(f) == f.parses /\ determine_layer(f.rel) # ReError

\* line 69: the markers of excluded paths
AnalyzerExcluded ==
    << <<".", "g", "i", "t">>,
       <<"_", "_", "p", "y", "c", "a", "c", "h", "e", "_", "_">>,
       <<"v", "e", "n", "v">>,
       <<"c", "a", "c", "h", "e">> >>

\* any(ex in str(f) for ex in excluded)
IsExcluded(path, excluded) == \E e \in 1..Len(excluded) : StrIn(excluded[e], path)

\* analyze_directory, lines 66-70: the files found, without the excluded ones
FindPythonFiles ==
    /\ pc = "glob"
    /\ python_files' = SelectSeq(python_files,
           LAMBDA f : ~IsExcluded(JoinPath(directory, f.rel), AnalyzerExcluded))
    /\ pc' = "parse"
    /\ UNCHANGED <<probe, check_types, directory, rules, modules, dependency_graph, violations,
                   findings, file_idx, exit_code>>

\* analyze_directory, lines 75-79: one file parsed and stored under its key
ParseModule ==
    /\ pc = "parse"
    /\ file_idx <= Len(python_files)
    /\ modules' = IF ParseSucceeds(python_files[file_idx])
                  THEN Append(modules, Module(python_files[file_idx]))
                  ELSE modules
    /\ file_idx' = file_idx + 1
    /\ UNCHANGED <<probe, check_types, pc, directory, python_files, rules, dependency_graph,
                   violations, findings, exit_code>>

\* str(other_module.path.with_suffix('')).replace('/', '.')
OtherModulePath(other_module) ==
    StrReplace(WithSuffixStripped(other_module.path), <<"/">>, <<".">>)

\* the test of line 156 dropped: every candidate is taken
ImportMatchesAlways(import_name, other_module_path) == TRUE

\* line 156: the import matches the candidate module
ImportMatches(import_name, other_module_path) ==
    StrIn(import_name, other_module_path) \/ StrEndsWith(other_module_path, import_name)

\* the candidates the inner loop of build_dependency_graph ranges over
Candidates(module, mods) == Range(mods)

\* the names added to dependency_graph[module.name]
Dependencies(module, mods) ==
    {other.name : other \in
        {o \in Candidates(module, mods) :
            \E i \in 1..Len(module.imports) :
                ImportMatches(module.imports[i], OtherModulePath(o))}}

\* the graph build_dependency_graph leaves: a key exists once a name was added
BuiltGraph(mods) ==
    LET withDeps == SelectSeq(mods, LAMBDA m : Dependencies(m, mods) # {})
    IN  [keys |-> [i \in 1..Len(withDeps) |-> withDeps[i].name],
         adj |-> [n \in {withDeps[i].name : i \in 1..Len(withDeps)} |->
                    Dependencies(CHOOSE m \in Range(mods) : m.name = n, mods)]]

\* build_dependency_graph
BuildDependencyGraph ==
    /\ pc = "parse"
    /\ file_idx > Len(python_files)
    /\ dependency_graph' = BuiltGraph(modules)
    /\ pc' = "layers"
    /\ UNCHANGED <<probe, check_types, directory, python_files, rules, modules, violations,
                   findings, file_idx, exit_code>>

\* the parts of a message: its fixed text and the values formatted into it
\* (a layer or pattern name, a module or import name, a count)
Message(text, name, subject, count) ==
    [text |-> text, name |-> name, subject |-> subject, count |-> count]

\* an ArchitectureViolation
Violation(severity, rule, file_path, message) ==
    [severity |-> severity, rule |-> rule, file_path |-> file_path, message |-> message]

\* forbidden_pattern.replace('**', '.*').replace('*', '[^.]*')
ForbiddenRegex(forbidden_pattern) ==
    StrReplace(StrReplace(forbidden_pattern, <<"*", "*">>, <<".", "*">>),
               <<"*">>, <<"[", "^", ".", "]", "*">>)

\* layers_config.get(module.layer, {}).get('forbidden_imports', [])
ForbiddenOf(layer) ==
    LET I == {l \in 1..Len(rules.layers) : rules.layers[l].name = layer}
    IN  IF I = {} THEN << >> ELSE rules.layers[CHOOSE l \in I : TRUE].forbidden_imports

\* the (module, import, forbidden pattern) triples check_layer_violations
\* tests, in the order of its three loops; a module without layer is skipped
LayerProbes(mods) ==
    Concat([m \in 1..Len(mods) |->
        IF mods[m].layer = None THEN << >>
        ELSE Concat([i \in 1..Len(mods[m].imports) |->
                [f \in 1..Len(ForbiddenOf(mods[m].layer)) |->
                    [module_name |-> mods[m].name,
                     layer |-> mods[m].layer,
                     import_name |-> mods[m].imports[i],
                     forbidden_pattern |-> ForbiddenOf(mods[m].layer)[f]]]])])

\* line 189: re.match(pattern, import_name)
ForbiddenMatches(forbidden_pattern, import_name) ==
    ReMatch(ForbiddenRegex(forbidden_pattern), import_name)

\* the loops of check_layer_violations from probe i on: the violations
\* appended, and whether re.error ended the run
RECURSIVE LayerScan(_, _)
LayerScan(probes, i) ==
    IF i > Len(probes) THEN [out |-> << >>, raised |-> FALSE]
    ELSE IF ~Compiles(ForbiddenRegex(probes[i].forbidden_pattern))
         THEN [out |-> << >>, raised |-> TRUE]
    ELSE LET rest == LayerScan(probes, i + 1)
             here == IF ForbiddenMatches(probes[i].forbidden_pattern, probes[i].import_name)
                     THEN <<Violation("ERROR", "no_layer_skipping", probes[i].module_name,
                                      Message("should not import", probes[i].layer,
                                              probes[i].import_name, 0))>>
                     ELSE << >>
         IN  [out |-> here \o rest.out, raised |-> rest.raised]

\* check_layer_violations; an uncaught re.error ends the program
CheckLayerViolations ==
    /\ pc = "layers"
    /\ LET r == LayerScan(LayerProbes(modules), 1)
       IN  /\ violations' = violations \o r.out
           /\ pc' = IF r.raised THEN "crashed" ELSE "cycles"
           /\ exit_code' = IF r.raised THEN 1 ELSE exit_code
    /\ UNCHANGED <<probe, check_types, directory, python_files, rules, modules, dependency_graph,
                   findings, file_idx>>

\* has_path(start, end, visited): visited holds the modules on the current
\* recursion path (each call gets its own copy)
RECURSIVE has_path(_, _, _, _)
has_path(graph, start, end, visited) ==
    IF start = end THEN TRUE
    ELSE IF start \in visited THEN FALSE
    ELSE \E neighbor \in Get(graph.adj, start, {}) :
            has_path(graph, neighbor, end, visited \cup {start})

\* the edges (module_a, module_b) in the order of the two loops, the sets of
\* neighbours iterated in the orders given by order
EdgeSequence(graph, order) ==
    Concat([k \in 1..Len(graph.keys) |->
        [j \in 1..Len(order[graph.keys[k]]) |->
            <<graph.keys[k], order[graph.keys[k]][j]>>]])

\* the loops from edge i on without the test of lines 216-218: every edge is
\* probed, also one whose pair is in checked
RECURSIVE CycleScanUnchecked(_, _, _, _)
CycleScanUnchecked(graph, edges, i, checked) ==
    IF i > Len(edges) THEN << >>
    ELSE (IF has_path(graph, edges[i][2], edges[i][1], {})
          THEN <<Violation("ERROR", "no_circular_dependencies", edges[i][1],
                           Message("Circular dependency", None, edges[i][2], 0))>>
          ELSE << >>)
         \o CycleScanUnchecked(graph, edges, i + 1, checked)

\* the loops of check_circular_dependencies from edge i on
RECURSIVE CycleScan(_, _, _, _)
CycleScan(graph, edges, i, checked) ==
    IF i > Len(edges) THEN << >>
    ELSE LET module_a == edges[i][1]
             module_b == edges[i][2]
             pair == {module_a, module_b}
         IN  IF pair \in checked THEN CycleScan(graph, edges, i + 1, checked)
             ELSE (IF has_path(graph, module_b, module_a, {})
                   THEN <<Violation("ERROR", "no_circular_dependencies", module_a,
                                    Message("Circular dependency", None, module_b, 0))>>
                   ELSE << >>)
                  \o CycleScan(graph, edges, i + 1, checked \cup {pair})

\* the orders in which the sets of the graph may be iterated
SetOrders(graph) ==
    {o \in [DOMAIN graph.adj -> UNION {Orders(graph.adj[k]) : k \in DOMAIN graph.adj}] :
        \A k \in DOMAIN graph.adj : o[k] \in Orders(graph.adj[k])}

\* check_circular_dependencies
CheckCircularDependencies ==
    /\ pc = "cycles"
    /\ \E order \in SetOrders(dependency_graph) :
          violations' = violations \o
              CycleScan(dependency_graph, EdgeSequence(dependency_graph, order), 1, {})
    /\ pc' = "complexity"
    /\ UNCHANGED <<probe, check_types, directory, python_files, rules, modules, dependency_graph,
                   findings, file_idx, exit_code>>

\* lines 237 and 246 with >= in place of >
LineFindingsInclusive(module, thresholds) ==
    IF module.line_count >= Get(thresholds.lines, "error", 1000)
    THEN <<Violation("ERROR", "single_responsibility", module.name,
                     Message("File too large", None, << >>, module.line_count))>>
    ELSE IF module.line_count >= Get(thresholds.lines, "warning", 500)
    THEN <<Violation("WARNING", "single_responsibility", module.name,
                     Message("File is large", None, << >>, module.line_count))>>
    ELSE << >>

\* lines 237-254: the line-count finding of a module
LineFindings(module, thresholds) ==
    IF module.line_count > Get(thresholds.lines, "error", 1000)
    THEN <<Violation("ERROR", "single_responsibility", module.name,
                     Message("File too large", None, << >>, module.line_count))>>
    ELSE IF module.line_count > Get(thresholds.lines, "warning", 500)
    THEN <<Violation("WARNING", "single_responsibility", module.name,
                     Message("File is large", None, << >>, module.line_count))>>
    ELSE << >>

\* lines 257-266: the method-count finding of a module
MethodFindings(module, thresholds) ==
    LET method_count == Len(module.functions)
    IN  IF method_count > Get(thresholds.methods, "error", 30)
        THEN <<Violation("ERROR", "single_responsibility", module.name,
                         Message("Too many methods", None, << >>, method_count))>>
        ELSE << >>

\* check_complexity
CheckComplexity ==
    /\ pc = "complexity"
    /\ violations' = violations \o
          Concat([m \in 1..Len(modules) |->
                    LineFindings(modules[m], rules.complexity_thresholds)
                    \o MethodFindings(modules[m], rules.complexity_thresholds)])
    /\ pc' = "duplicate"
    /\ UNCHANGED <<probe, check_types, directory, python_files, rules, modules, dependency_graph,
                   findings, file_idx, exit_code>>

\* the text open(module.path).read() returns: the content of the file parsed
ContentOf(module) ==
    (CHOOSE f \in Range(python_files) : f.rel = module.name).content

\* lines 282-288: the module is added to matches; an exception (a regex that
\* is missing or does not compile) is swallowed by the bare except
DuplicateMatch(pattern_info, module) ==
    /\ "regex" \in DOMAIN pattern_info
    /\ Compiles(pattern_info.regex)
    /\ ReSearch(pattern_info.regex, ContentOf(module))

\* lines 279-300 for one pattern
DuplicateFindings(pattern_info, mods, threshold) ==
    LET matches == SelectSeq(mods, LAMBDA m : DuplicateMatch(pattern_info, m))
    IN  IF Len(matches) >= threshold
        THEN [i \in 1..Len(matches) |->
                Violation("INFO", "duplicate_logic", matches[i].name,
                          Message("Duplicate pattern", Get(pattern_info, "name", None),
                                  << >>, Len(matches)))]
        ELSE << >>

\* check_duplicate_logic; analyze_directory returns after it
CheckDuplicateLogic ==
    /\ pc = "duplicate"
    /\ LET indicators == rules.duplicate_logic
           patterns == Get(indicators, "patterns", << >>)
           threshold == Get(indicators, "threshold", 3)
       IN  violations' = violations \o
              Concat([p \in 1..Len(patterns) |->
                        DuplicateFindings(patterns[p], modules, threshold)])
    /\ pc' = "report"
    /\ UNCHANGED <<probe, check_types, directory, python_files, rules, modules, dependency_graph,
                   findings, file_idx, exit_code>>

\* line 372 without the severity filter: 1 for any violation
ViolationsExitCodeAny(vs) == IF vs = << >> THEN 0 ELSE 1

\* the value print_violations returns
ViolationsExitCode(vs) ==
    IF vs = << >> THEN 0
    ELSE IF \E i \in 1..Len(vs) : vs[i].severity = "ERROR" THEN 1 ELSE 0

\* print_violations, whose value main returns to sys.exit
PrintViolations ==
    /\ pc = "report"
    /\ exit_code' = ViolationsExitCode(violations)
    /\ pc' = "done"
    /\ UNCHANGED <<probe, check_types, directory, python_files, rules, modules, dependency_graph,
                   violations, findings, file_idx>>

\* analyze_directory followed by print_violations
AnalyzerNext ==
    \/ FindPythonFiles
    \/ ParseModule
    \/ BuildDependencyGraph
    \/ CheckLayerViolations
    \/ CheckCircularDependencies
    \/ CheckComplexity
    \/ CheckDuplicateLogic
    \/ PrintViolations

(***************************************************************************)
(* The corpora and rule files the analyzer is run on.                      *)
(***************************************************************************)
\* relative paths of source files
FileA == <<"a", ".", "p", "y">>
FileB == <<"b", ".", "p", "y">>
FileC == <<"c", ".", "p", "y">>
FileNames == {FileA, FileB, FileC}

\* the directory argument: '.' or 'p'
Directories == {<< >>, <<"p">>}

\* a rule file without layers, with the default thresholds and no patterns
NoRules ==
    [layers |-> << >>,
     complexity_thresholds |-> [lines |-> EmptyDict, methods |-> EmptyDict],
     duplicate_logic |-> EmptyDict]

\* the sequence of the elements of a set of strings, in ascending order
RECURSIVE SortedSeq(_)
SortedSeq(S) ==
    IF S = {} THEN << >>
    ELSE LET least == CHOOSE x \in S : \A y \in S \ {x} : StrLess(x, y)
         IN  <<least>> \o SortedSeq(S \ {least})

\* check_circular_dependencies is not running: no edge list, an empty
\* 'checked', no has_path call on the stack
NoProbe ==
    [edges |-> << >>, order |-> EmptyDict, i |-> 0, checked |-> {},
     examined |-> << >>, stack |-> << >>, ret |-> None]

\* the state after ArchitectureAnalyzer.__init__, common to every corpus
AnalyzerStart ==
    /\ pc = "glob"
    /\ check_types = << >>
    /\ file_idx = 1
    /\ modules = << >>
    /\ dependency_graph = [keys |-> << >>, adj |-> EmptyDict]
    /\ violations = << >>
    /\ findings = << >>
    /\ exit_code = 0
    /\ probe = NoProbe

\* import statements resolved against the corpus
ImportNames == {<<"a">>, <<"b">>, <<"c">>, <<"p">>, <<"x">>}

\* corpora of one to three files in any enumeration order, some unparsable,
\* with at most MaxImports import statements in all
GraphCorpora ==
    {fs \in UNION {Orders(S) : S \in SUBSET FileNames \ {{}}} : TRUE}

InitGraph ==
    /\ AnalyzerStart
    /\ directory \in Directories
    /\ rules = NoRules
    /\ \E names \in GraphCorpora :
       \E imps \in {I \in SUBSET (Range(names) \X ImportNames) : Cardinality(I) <= MaxImports} :
       \E bad \in {{}} \cup {{n} : n \in Range(names)} :
          python_files =
             [i \in 1..Len(names) |->
                [rel |-> names[i],
                 parses |-> names[i] \notin bad,
                 imports |-> SortedSeq({p[2] : p \in {q \in imps : q[1] = names[i]}}),
                 functions |-> << >>,
                 content |-> << >>]]

SpecGraph == InitGraph /\ [][AnalyzerNext]_vars

(***************************************************************************)
(* Vocabulary of the properties of the analyzer.                           *)
(***************************************************************************)
\* the keys of self.modules
ModuleNames == {modules[i].name : i \in 1..Len(modules)}

\* the edges of self.dependency_graph
Edges == {e \in (DOMAIN dependency_graph.adj) \X ModuleNames :
             e[2] \in dependency_graph.adj[e[1]]}

\* the modules reachable from the set S by zero or more edges
RECURSIVE ReachableFrom(_)
ReachableFrom(S) ==
    LET next == S \cup UNION {Get(dependency_graph.adj, n, {}) : n \in S}
    IN  IF next = S THEN S ELSE ReachableFrom(next)

\* a directed path of one or more edges leads from a to b
PathExists(a, b) == b \in ReachableFrom(Get(dependency_graph.adj, a, {}))

\* a cycle of the glossary: two or more modules on a closed loop
ClosedLoopExists ==
    \E a, b \in ModuleNames : a # b /\ PathExists(a, b) /\ PathExists(b, a)

\* the findings of one rule
FindingsOf(rule) == SelectSeq(violations, LAMBDA v : v.rule = rule)

\* build_dependency_graph has run
GraphBuilt == pc \in {"layers", "cycles", "complexity", "duplicate", "report", "done"}

\* check_circular_dependencies has run
CyclesChecked == pc \in {"complexity", "duplicate", "report", "done"}

\* s[i..j] == t for some i, j
IsSubstring(t, s) == \E i \in 1..(Len(s) + 1) : \E j \in 0..Len(s) : SubSeq(s, i, j) = t

\* the module of a name
ModuleOf(name) == CHOOSE m \in Range(modules) : m.name = name

(***************************************************************************)
(* C1: for the graph of exactly the edges A->B, B->C, C->A,                *)
(* check_circular_dependencies appends exactly one                         *)
(* 'no_circular_dependencies' finding.  The code appends three, one per    *)
(* pair: C1_OneFindingPerCycle is violated.                                *)
(***************************************************************************)
C1_OneFindingPerCycle ==
    (CyclesChecked /\ Edges = {<<FileA, FileB>>, <<FileB, FileC>>, <<FileC, FileA>>})
        => Len(FindingsOf("no_circular_dependencies")) = 1

(***************************************************************************)
(* C2: when the resolved dependencies hold no closed loop of two or more   *)
(* modules, check_circular_dependencies appends no finding.  A module that *)
(* resolves to itself (C10) gets a finding without such a loop:            *)
(* C2_AcyclicNoFinding is violated.                                        *)
(***************************************************************************)
C2_AcyclicNoFinding ==
    (CyclesChecked /\ ~ClosedLoopExists)
        => FindingsOf("no_circular_dependencies") = << >>

(***************************************************************************)
(* C9: after build_dependency_graph every key and every edge target of     *)
(* dependency_graph is a key of self.modules; an edge M -> O exists only   *)
(* for an import of M that occurs in the dotted path of O, so an import    *)
(* that occurs in no module's path adds no edge; and building the graph    *)
(* appends no finding.                                                     *)
(***************************************************************************)
C9_GraphWithinModules ==
    GraphBuilt =>
        /\ Range(dependency_graph.keys) = DOMAIN dependency_graph.adj
        /\ DOMAIN dependency_graph.adj \subseteq ModuleNames
        /\ \A k \in DOMAIN dependency_graph.adj :
              /\ dependency_graph.adj[k] # {}
              /\ dependency_graph.adj[k] \subseteq ModuleNames
              /\ \A o \in dependency_graph.adj[k] :
                    \E imp \in Range(ModuleOf(k).imports) :
                        IsSubstring(imp, OtherModulePath(ModuleOf(o)))
        /\ (pc = "layers" => violations = << >>)

\* the graph is built from a module that has a resolved and an unresolved
\* import, next to a module whose only import is unresolved
C9_Witness ==
    /\ pc = "layers"
    /\ \E m, n \in Range(modules) :
          /\ m.name \in DOMAIN dependency_graph.adj
          /\ <<"x">> \in Range(m.imports)
          /\ n.imports = <<(<<"x">>)>>
          /\ n.name \notin DOMAIN dependency_graph.adj

(***************************************************************************)
(* C10: dependency_graph never holds a self-edge M -> M.  The code matches *)
(* an import against every module, the importing one included:             *)
(* C10_NoSelfEdge is violated.                                             *)
(***************************************************************************)
C10_NoSelfEdge ==
    GraphBuilt => \A k \in DOMAIN dependency_graph.adj : k \notin dependency_graph.adj[k]

\* the findings of check_circular_dependencies for the unordered pair {a, b}
PairFindings(a, b) ==
    SelectSeq(FindingsOf("no_circular_dependencies"),
              LAMBDA v : {v.file_path, v.message.subject} = {a, b})

(***************************************************************************)
(* C11: one call of check_circular_dependencies appends at most one        *)
(* finding per unordered pair of modules {A, B}, also when both A -> B and *)
(* B -> A are edges.                                                       *)
(***************************************************************************)
C11_PairReportedOnce ==
    CyclesChecked => \A a, b \in ModuleNames : Len(PairFindings(a, b)) <= 1

\* both A -> B and B -> A are edges of two modules, and the pair has its one
\* finding
C11_Witness ==
    /\ CyclesChecked
    /\ \E a, b \in ModuleNames :
          /\ a # b
          /\ <<a, b>> \in Edges
          /\ <<b, a>> \in Edges
          /\ Len(PairFindings(a, b)) = 1

(***************************************************************************)
(* check_circular_dependencies step by step: the outer loops over the      *)
(* edges and the recursion of has_path with its call stack.                *)
(*                                                                         *)
(* probe.edges    : the edges (module_a, module_b) in the order of the     *)
(*                  loops of lines 213-214                                 *)
(* probe.order    : the iteration order of each set of the graph           *)
(* probe.i        : the position of the outer loops in probe.edges         *)
(* probe.checked  : 'checked'                                              *)
(* probe.examined : the pairs handed to has_path, in order                 *)
(* probe.stack    : the active calls of has_path, the innermost last: its  *)
(*                  arguments, whether it is past line 206, the neighbours *)
(*                  its loop has still to visit                            *)
(* probe.ret      : the value the call that just returned gave             *)
(***************************************************************************)
\* a call has_path(start, end, visited) at its first line
Frame(start, end, visited) ==
    [start |-> start, end |-> end, visited |-> visited, entered |-> FALSE, todo |-> << >>]

\* line 216 without its test: no pair counts as checked
PairSeenNever(pair, checked) == FALSE

\* line 216: pair in checked
PairSeen(pair, checked) == pair \in checked

\* lines 212-213: checked = set(), the loops start
BeginCycleCheck ==
    /\ pc = "cycles"
    /\ \E order \in SetOrders(dependency_graph) :
          probe' = [NoProbe EXCEPT !.edges = EdgeSequence(dependency_graph, order),
                                   !.order = order,
                                   !.i = 1]
    /\ pc' = "probing"
    /\ UNCHANGED <<check_types, directory, python_files, rules, modules, dependency_graph,
                   violations, findings, file_idx, exit_code>>

\* lines 213-221: the next edge; its pair is skipped or put into checked and
\* has_path(module_b, module_a, set()) is called
ProbeEdge ==
    /\ pc = "probing"
    /\ probe.stack = << >>
    /\ probe.ret = None
    /\ probe.i <= Len(probe.edges)
    /\ LET module_a == probe.edges[probe.i][1]
           module_b == probe.edges[probe.i][2]
           pair == {module_a, module_b}
       IN  probe' = IF PairSeen(pair, probe.checked)
                    THEN [probe EXCEPT !.i = probe.i + 1]
                    ELSE [probe EXCEPT !.checked = probe.checked \cup {pair},
                                       !.examined = Append(probe.examined, pair),
                                       !.stack = <<Frame(module_b, module_a, {})>>]
    /\ UNCHANGED <<pc, check_types, directory, python_files, rules, modules,
                   dependency_graph, violations, findings, file_idx, exit_code>>

\* one step of the innermost call of has_path, lines 202-210
HasPathStep ==
    /\ pc = "probing"
    /\ probe.stack # << >>
    /\ LET n == Len(probe.stack)
           top == probe.stack[n]
           rest == SubSeq(probe.stack, 1, n - 1)
       IN  probe' =
              IF ~top.entered
              THEN IF top.start = top.end
                   THEN [probe EXCEPT !.stack = rest, !.ret = "True"]
                   ELSE IF top.start \in top.visited
                   THEN [probe EXCEPT !.stack = rest, !.ret = "False"]
                   ELSE [probe EXCEPT !.stack[n] =
                            [top EXCEPT !.entered = TRUE,
                                        !.visited = top.visited \cup {top.start},
                                        !.todo = Get(probe.order, top.start, << >>)]]
              ELSE IF probe.ret = "True"
                   THEN [probe EXCEPT !.stack = rest]
                   ELSE IF top.todo = << >>
                   THEN [probe EXCEPT !.stack = rest, !.ret = "False"]
                   ELSE [probe EXCEPT
                            !.ret = None,
                            !.stack = Append([probe.stack EXCEPT ![n].todo = Tail(top.todo)],
                                             Frame(Head(top.todo), top.end, top.visited))]
    /\ UNCHANGED <<pc, check_types, directory, python_files, rules, modules,
                   dependency_graph, violations, findings, file_idx, exit_code>>

\* lines 221-229: has_path returned to the loop, which appends the violation
ProbeReturn ==
    /\ pc = "probing"
    /\ probe.stack = << >>
    /\ probe.ret # None
    /\ violations' =
          IF probe.ret = "True"
          THEN Append(violations,
                      Violation("ERROR", "no_circular_dependencies", probe.edges[probe.i][1],
                                Message("Circular dependency", None, probe.edges[probe.i][2], 0)))
          ELSE violations
    /\ probe' = [probe EXCEPT !.i = probe.i + 1, !.ret = None]
    /\ UNCHANGED <<pc, check_types, directory, python_files, rules, modules,
                   dependency_graph, findings, file_idx, exit_code>>

\* the loops are over: check_circular_dependencies returns
EndCycleCheck ==
    /\ pc = "probing"
    /\ probe.stack = << >>
    /\ probe.ret = None
    /\ probe.i > Len(probe.edges)
    /\ pc' = "complexity"
    /\ UNCHANGED <<probe, check_types, directory, python_files, rules, modules,
                   dependency_graph, violations, findings, file_idx, exit_code>>

\* analyze_directory and print_violations, check_circular_dependencies in steps
ProbeNext ==
    \/ FindPythonFiles
    \/ ParseModule
    \/ BuildDependencyGraph
    \/ CheckLayerViolations
    \/ BeginCycleCheck
    \/ ProbeEdge
    \/ HasPathStep
    \/ ProbeReturn
    \/ EndCycleCheck
    \/ CheckComplexity
    \/ CheckDuplicateLogic
    \/ PrintViolations

\* the import names of the probed corpora: the modules themselves
ProbeImportNames == {<<"a">>, <<"b">>, <<"c">>}

InitProbe ==
    /\ AnalyzerStart
    /\ directory = << >>
    /\ rules = NoRules
    /\ \E names \in GraphCorpora :
       \E imps \in {I \in SUBSET (Range(names) \X ProbeImportNames) :
                       Cardinality(I) <= MaxImports} :
          python_files =
             [i \in 1..Len(names) |->
                [rel |-> names[i],
                 parses |-> TRUE,
                 imports |-> SortedSeq({p[2] : p \in {q \in imps : q[1] = names[i]}}),
                 functions |-> << >>,
                 content |-> << >>]]

\* every step that can be taken is taken: the interpreter runs on
SpecProbe == InitProbe /\ [][ProbeNext]_vars /\ WF_vars(ProbeNext)

\* the recursion of has_path is at most as deep as there are modules
DepthBounded == Len(probe.stack) <= Cardinality(ModuleNames)

\* no module is entered twice along the active calls of has_path
NoRevisit ==
    \A i, j \in 1..Len(probe.stack) :
        (i < j /\ probe.stack[i].entered /\ probe.stack[j].entered)
            => probe.stack[i].start # probe.stack[j].start

\* no unordered pair is handed to has_path twice
PairsOnce ==
    \A i, j \in 1..Len(probe.examined) : i < j => probe.examined[i] # probe.examined[j]

(***************************************************************************)
(* C14: check_circular_dependencies terminates on every dependency graph,  *)
(* with cycles and self-edges too: the recursion of has_path never enters  *)
(* a module twice along one path and is at most as deep as there are       *)
(* modules, the loops hand every unordered pair to has_path at most once,  *)
(* and a call that has started returns.                                    *)
(***************************************************************************)
C14_CycleCheckTerminates ==
    /\ [](DepthBounded /\ NoRevisit /\ PairsOnce)
    /\ (pc = "cycles") ~> (pc = "complexity")

\* the check has returned on a graph with a loop of two or more modules and a
\* self-edge, after it reported
C14_Witness ==
    /\ pc = "complexity"
    /\ probe.i > 1
    /\ ClosedLoopExists
    /\ \E k \in DOMAIN dependency_graph.adj : k \in dependency_graph.adj[k]
    /\ FindingsOf("no_circular_dependencies") # << >>

\* the steps append what the loops of CycleScan append
StepsAgreeWithScan ==
    (pc = "complexity" /\ probe.i > 0) =>
        violations = CycleScan(dependency_graph, probe.edges, 1, {})

(***************************************************************************)
(* Corpora and rule files for the layer checks.                            *)
(***************************************************************************)
FileDomain == <<"d", "o", "m", "a", "i", "n", "/", "m", ".", "p", "y">>
FileUi == <<"u", "i", "/", "v", ".", "p", "y">>

ImportInfraDb == <<"i", "n", "f", "r", "a", ".", "d", "b">>
ImportInfra2Other == <<"i", "n", "f", "r", "a", "2", ".", "o", "t", "h", "e", "r">>
ImportInfra == <<"i", "n", "f", "r", "a">>
ImportInfraDbX == <<"i", "n", "f", "r", "a", ".", "d", "b", ".", "x">>
ImportDb == <<"d", "b">>
LayerImportNames == {ImportInfraDb, ImportInfra2Other, ImportInfra, ImportInfraDbX, ImportDb}

\* forbidden-import globs
GlobInfraStar == <<"i", "n", "f", "r", "a", ".", "*">>
GlobInfraStarStar == <<"i", "n", "f", "r", "a", ".", "*", "*">>
GlobDb == <<"d", "b">>
GlobUnterminated == <<"[">>

\* directory globs
DirDomain == <<"d", "o", "m", "a", "i", "n", "/", "*", "*">>
DirDomainStar == <<"d", "o", "m", "a", "i", "n", "/", "*">>
DirAny == <<"*", "*">>
DirUi == <<"u", "i", "/", "*">>
DirUnterminated == <<"[">>

Layer(name, directories, forbidden_imports) ==
    [name |-> name, directories |-> directories, forbidden_imports |-> forbidden_imports]

\* the 'layers' sections of the rule files
LayerConfigs ==
    { <<Layer("domain", <<DirDomain>>, <<GlobInfraStar>>)>>,
      <<Layer("domain", <<DirDomainStar>>, <<GlobInfraStarStar>>),
        Layer("ui", <<DirUi>>, <<GlobDb, GlobInfraStar>>)>>,
      <<Layer("ui", <<DirUi, DirAny>>, <<GlobDb>>),
        Layer("domain", <<DirDomain>>, <<GlobInfraStar>>)>>,
      <<Layer("domain", <<DirDomain>>, <<GlobInfraStar, GlobUnterminated>>)>>,
      <<Layer("ui", <<DirDomain>>, <<GlobDb>>),
        Layer("domain", <<DirDomainStar>>, <<GlobInfraStar>>)>>,
      <<Layer("ui", <<DirUi, DirUnterminated>>, <<GlobDb>>),
        Layer("domain", <<DirDomain>>, <<GlobInfraStar>>)>>,
      << >> }

\* a corpus: the files names in enumeration order, the imports imps (pairs of
\* file and import name) and the unparsable files bad
Corpus(names, imps, bad) ==
    [i \in 1..Len(names) |->
        [rel |-> names[i],
         parses |-> names[i] \notin bad,
         imports |-> SortedSeq({p[2] : p \in {q \in imps : q[1] = names[i]}}),
         functions |-> << >>,
         content |-> << >>]]

InitLayer ==
    /\ AnalyzerStart
    /\ directory = <<"p">>
    /\ \E layers \in LayerConfigs :
          rules = [NoRules EXCEPT !.layers = layers]
    /\ \E names \in UNION {Orders(S) : S \in SUBSET {FileDomain, FileUi} \ {{}}} :
       \E imps \in {I \in SUBSET (Range(names) \X LayerImportNames) :
                        Cardinality(I) <= MaxImports} :
          python_files = Corpus(names, imps, {})

SpecLayer == InitLayer /\ [][AnalyzerNext]_vars

\* check_layer_violations has run to its end
LayersChecked == pc \in {"cycles", "complexity", "duplicate", "report", "done"}

\* the 'no_layer_skipping' findings of a module for an import
LayerFindings(module_name, import_name) ==
    SelectSeq(violations, LAMBDA v : /\ v.rule = "no_layer_skipping"
                                     /\ v.file_path = module_name
                                     /\ v.message.subject = import_name)

(***************************************************************************)
(* C3: a module whose layer declares forbidden_imports ["infra.*"] gets    *)
(* exactly one ERROR finding for the import 'infra.db' and none for        *)
(* 'infra2.other'.  In the code the '.' of the glob is the regex wildcard  *)
(* and re.match is anchored at the start only, so 'infra2.other' matches:  *)
(* C3_ForbiddenGlob is violated.                                           *)
(***************************************************************************)
C3_ForbiddenGlob ==
    LayersChecked =>
        \A m \in Range(modules) :
            (m.layer # None /\ ForbiddenOf(m.layer) = <<GlobInfraStar>>) =>
                /\ ImportInfraDb \in Range(m.imports) =>
                      /\ Len(LayerFindings(m.name, ImportInfraDb)) = 1
                      /\ LayerFindings(m.name, ImportInfraDb)[1].severity = "ERROR"
                /\ LayerFindings(m.name, ImportInfra2Other) = << >>

\* a directory pattern matches a relative path, by the test of line 143
DirMatches(dir_pattern, rel_path) ==
    Compiles(DirPatternRegex(dir_pattern)) /\ ReMatch(DirPatternRegex(dir_pattern), rel_path)

\* the 'no_layer_skipping' findings of a module
LayerFindingsOf(module_name) ==
    SelectSeq(violations, LAMBDA v : v.rule = "no_layer_skipping" /\ v.file_path = module_name)

(***************************************************************************)
(* C13: the layer of a module is the layer of the first directory pattern, *)
(* in the declaration order of the layers and of their patterns, that      *)
(* matches the relative path of its file, and no layer when no pattern     *)
(* matches; a module without layer has no 'no_layer_skipping' finding,     *)
(* whatever it imports.                                                    *)
(***************************************************************************)
C13_FirstLayerWins ==
    \A m \in Range(modules) :
        LET pairs == LayerPatterns(rules.layers)
            hits == {i \in 1..Len(pairs) : DirMatches(pairs[i].pattern, m.name)}
        IN  /\ hits = {} => m.layer = None
            /\ hits # {} =>
                  \E i \in hits : /\ \A j \in hits : i <= j
                                  /\ m.layer = pairs[i].layer
            /\ m.layer = None => LayerFindingsOf(m.name) = << >>

\* check_layer_violations has run on a module whose path matches patterns of
\* two layers, and on a module without layer that imports what a layer forbids
C13_Witness ==
    /\ LayersChecked
    /\ \E m, n \in Range(modules) :
          LET pairs == LayerPatterns(rules.layers)
          IN  /\ \E i, j \in 1..Len(pairs) :
                    /\ i < j
                    /\ pairs[i].layer # pairs[j].layer
                    /\ DirMatches(pairs[i].pattern, m.name)
                    /\ DirMatches(pairs[j].pattern, m.name)
                    /\ m.layer = pairs[i].layer
              /\ n.layer = None
              /\ \E l \in 1..Len(rules.layers) :
                 \E f \in 1..Len(rules.layers[l].forbidden_imports) :
                 \E k \in 1..Len(n.imports) :
                    /\ Compiles(ForbiddenRegex(rules.layers[l].forbidden_imports[f]))
                    /\ ForbiddenMatches(rules.layers[l].forbidden_imports[f], n.imports[k])

(***************************************************************************)
(* Corpora and rule files for the complexity check.                        *)
(***************************************************************************)
\* a file of n + 1 lines: n newline characters
ContentOfLines(n) == [i \in 1..n |-> "\n"]

\* n function definitions
FunctionsOf(n) == [i \in 1..n |-> "f"]

\* the 'lines' and 'methods' sections: any of the keys may be missing
ThresholdDicts ==
    {EmptyDict}
    \cup {[k \in {"warning"} |-> w] : w \in 1..MaxThreshold}
    \cup {[k \in {"error"} |-> e] : e \in 1..MaxThreshold}
    \cup {[warning |-> w, error |-> e] : w, e \in 1..MaxThreshold}

\* the method counts of the corpus: around the configured thresholds and
\* around the default of line 258
MethodCounts == 0..(MaxThreshold + 1) \cup {30, 31}

InitComplexity ==
    /\ AnalyzerStart
    /\ directory = << >>
    /\ \E lines \in {d \in ThresholdDicts :
                        DOMAIN d = {"warning", "error"} => d.warning < d.error} :
       \E methods \in {d \in ThresholdDicts : DOMAIN d # {"warning"}
                        /\ (DOMAIN d = {"warning", "error"} => d.warning < d.error)} :
          rules = [NoRules EXCEPT
                      !.complexity_thresholds = [lines |-> lines, methods |-> methods]]
    /\ \E names \in {<<FileA>>, <<FileA, FileB>>, <<FileB, FileA>>} :
       \E n \in 0..(MaxThreshold + 1) :
       \E f \in MethodCounts :
          python_files =
             [i \in 1..Len(names) |->
                [rel |-> names[i],
                 parses |-> TRUE,
                 imports |-> << >>,
                 functions |-> IF names[i] = FileA THEN FunctionsOf(f) ELSE << >>,
                 content |-> IF names[i] = FileA THEN ContentOfLines(n)
                             ELSE ContentOfLines(1)]]

SpecComplexity == InitComplexity /\ [][AnalyzerNext]_vars

\* check_complexity has run
ComplexityChecked == pc \in {"duplicate", "report", "done"}

\* the line-count findings of a module, of one severity
LineFindingsOf(module_name, severity) ==
    SelectSeq(violations, LAMBDA v : /\ v.file_path = module_name
                                     /\ v.message.text \in {"File too large", "File is large"}
                                     /\ v.severity = severity)

\* both line thresholds are configured, warning below error
LineThresholdsSet ==
    /\ DOMAIN rules.complexity_thresholds.lines = {"warning", "error"}
    /\ rules.complexity_thresholds.lines.warning < rules.complexity_thresholds.lines.error

(***************************************************************************)
(* C4 as stated: with line thresholds W < E, a module of exactly W lines   *)
(* gets one WARNING line finding, a module of E + 1 lines gets one ERROR   *)
(* line finding and no WARNING, a module of fewer than W lines gets none.  *)
(* The comparisons of the code are strict, so W lines give no finding:     *)
(* C4_WarningAtThreshold is violated.                                      *)
(***************************************************************************)
C4_WarningAtThreshold ==
    (ComplexityChecked /\ LineThresholdsSet) =>
        LET W == rules.complexity_thresholds.lines.warning
            E == rules.complexity_thresholds.lines.error
        IN  \A m \in Range(modules) :
               /\ m.line_count = W =>
                     /\ Len(LineFindingsOf(m.name, "WARNING")) = 1
                     /\ LineFindingsOf(m.name, "ERROR") = << >>
               /\ m.line_count = E + 1 =>
                     /\ Len(LineFindingsOf(m.name, "ERROR")) = 1
                     /\ LineFindingsOf(m.name, "WARNING") = << >>
               /\ m.line_count < W =>
                     /\ LineFindingsOf(m.name, "ERROR") = << >>
                     /\ LineFindingsOf(m.name, "WARNING") = << >>

(***************************************************************************)
(* C4 amended: with line thresholds W < E, a module of more than W and at  *)
(* most E lines (W + 1 lines in particular) gets exactly one WARNING line  *)
(* finding and no ERROR, a module of more than E lines (E + 1 lines in     *)
(* particular) gets exactly one ERROR line finding and no WARNING, and a   *)
(* module of at most W lines gets no line finding.                         *)
(***************************************************************************)
C4_StrictThresholds ==
    (ComplexityChecked /\ LineThresholdsSet) =>
        LET W == rules.complexity_thresholds.lines.warning
            E == rules.complexity_thresholds.lines.error
        IN  \A m \in Range(modules) :
               /\ (W < m.line_count /\ m.line_count <= E) =>
                     /\ Len(LineFindingsOf(m.name, "WARNING")) = 1
                     /\ LineFindingsOf(m.name, "ERROR") = << >>
               /\ m.line_count > E =>
                     /\ Len(LineFindingsOf(m.name, "ERROR")) = 1
                     /\ LineFindingsOf(m.name, "WARNING") = << >>
               /\ m.line_count <= W =>
                     /\ LineFindingsOf(m.name, "ERROR") = << >>
                     /\ LineFindingsOf(m.name, "WARNING") = << >>

\* the check has run on a module of W + 1 lines, which got its WARNING, next
\* to a module of exactly W lines
C4_Witness ==
    /\ ComplexityChecked
    /\ LineThresholdsSet
    /\ \E m, n \in Range(modules) :
          /\ m.line_count = rules.complexity_thresholds.lines.warning + 1
          /\ Len(LineFindingsOf(m.name, "WARNING")) = 1
          /\ n.line_count = rules.complexity_thresholds.lines.warning

\* the method-count findings of a module, of one severity: its findings of
\* the rule that are not about its line count
MethodFindingsOf(module_name, severity) ==
    SelectSeq(violations, LAMBDA v : /\ v.file_path = module_name
                                     /\ v.rule = "single_responsibility"
                                     /\ v.message.text \notin {"File too large", "File is large"}
                                     /\ v.severity = severity)

(***************************************************************************)
(* C12: with methods thresholds W < E, a module of more than W and at most *)
(* E functions gets one WARNING method finding, a module of more than E    *)
(* functions gets one ERROR method finding and no WARNING; without methods *)
(* thresholds a module gets an ERROR method finding exactly when it has    *)
(* more than 30 functions.  check_complexity reads methods.error only and  *)
(* has no warning tier for methods: C12_MethodThresholds is violated.      *)
(***************************************************************************)
C12_MethodThresholds ==
    ComplexityChecked =>
        \A m \in Range(modules) :
            LET methods == rules.complexity_thresholds.methods
                method_count == Len(m.functions)
                errors == Len(MethodFindingsOf(m.name, "ERROR"))
                warnings == Len(MethodFindingsOf(m.name, "WARNING"))
            IN  /\ (DOMAIN methods = {"warning", "error"} /\ methods.warning < methods.error) =>
                      /\ (method_count > methods.warning /\ method_count <= methods.error)
                            => (warnings = 1 /\ errors = 0)
                      /\ method_count > methods.error => (errors = 1 /\ warnings = 0)
                /\ methods = EmptyDict =>
                      /\ method_count > 30 => (errors = 1 /\ warnings = 0)
                      /\ method_count <= 30 => errors = 0

(***************************************************************************)
(* CodeValidator (validate_code.py).                                       *)
(*                                                                         *)
(* python_files : the files found by directory.glob, in enumeration order: *)
(*                [rel, readable, lines], lines as f.readlines() returns   *)
(*                them (each with its newline, but perhaps the last)       *)
(* rules        : the loaded YAML, a dict from 'global_excludes' and from   *)
(*                the check names to their configurations                  *)
(* check_types  : the --check arguments, empty when none was given         *)
(* findings     : self.findings                                            *)
(***************************************************************************)
\* validate_directory, lines 62-72: the files found, without the excluded
FilterExcluded ==
    /\ pc = "vglob"
    /\ LET excluded == Get(Get(rules, "global_excludes", EmptyDict), "directories", << >>)
       IN  python_files' = SelectSeq(python_files,
           LAMBDA f : ~IsExcluded(JoinPath(directory, f.rel), excluded))
    /\ pc' = "vscan"
    /\ UNCHANGED <<probe, directory, check_types, rules, modules, dependency_graph,
                   violations, findings, file_idx, exit_code>>

\* lines 107-115: the checks run when no --check is given
AllChecks ==
    <<"hardcoded_pixel_sizes", "unsafe_fallbacks", "coordinate_bugs",
      "hardcoded_config", "missing_validation", "import_issues", "code_quality">>

\* lines 95-104: the check a --check argument names
CheckOfType(check_type) ==
    CASE check_type = "pixel_size" -> "hardcoded_pixel_sizes"
      [] check_type = "fallbacks" -> "unsafe_fallbacks"
      [] check_type = "coordinates" -> "coordinate_bugs"
      [] check_type = "config" -> "hardcoded_config"
      [] OTHER -> check_type

\* lines 92-115: checks_to_run
ChecksToRun(types) ==
    IF types # << >> THEN [i \in 1..Len(types) |-> CheckOfType(types[i])]
    ELSE AllChecks

\* lines 129-132: the check applies to the file
CheckApplies(check_config, file_path) ==
    "files" \in DOMAIN check_config =>
        \E i \in 1..Len(check_config.files) : StrIn(check_config.files[i], file_path)

\* lines 136-145: the severity of a pattern: its own, else that of the check
PatternSeverity(pattern_config, check_config) ==
    IF pattern_config.kind = "dict"
    THEN Get(pattern_config, "severity", Get(check_config, "severity", "WARNING"))
    ELSE Get(check_config, "severity", "WARNING")

\* lines 183-186: the text of the lines around line_num
ContextText(all_lines, line_num, context_lines) ==
    LET max0 == IF line_num - context_lines - 1 > 0 THEN line_num - context_lines - 1 ELSE 0
        minlen == IF Len(all_lines) < line_num + context_lines
                  THEN Len(all_lines) ELSE line_num + context_lines
    IN  StrJoin(SubSeq(all_lines, max0 + 1, minlen))

\* is_allowed_context
is_allowed_context(file_path, line, all_lines, line_num, check_config) ==
    LET allowed == Get(check_config, "allowed_contexts", << >>)
    IN  \E c \in 1..Len(allowed) :
           LET context_pattern == allowed[c].pattern
           IN  \/ (context_pattern = <<"t", "e", "s", "t", "s", "/">>
                     /\ StrIn(<<"t", "e", "s", "t", "s", "/">>, file_path))
               \/ StrIn(context_pattern, line)
               \/ StrIn(context_pattern,
                        ContextText(all_lines, line_num, Get(check_config, "context_lines", 2)))

\* str.strip(): whitespace removed at both ends
RECURSIVE StrStrip(_)
StrStrip(s) ==
    IF s = << >> THEN s
    ELSE IF Head(s) \in {" ", "\n", "\t"} THEN StrStrip(Tail(s))
    ELSE IF s[Len(s)] \in {" ", "\n", "\t"} THEN StrStrip(SubSeq(s, 1, Len(s) - 1))
    ELSE s

\* a Finding
Finding(severity, file_path, line_number, rule_name, message, code_snippet) ==
    [severity |-> severity, file_path |-> file_path, line_number |-> line_number,
     rule_name |-> rule_name, message |-> message, code_snippet |-> code_snippet]

\* the (check, pattern, line) triples validate_file scans, in the order of the
\* loops of lines 118-120, 135 and 148
FileProbes(file_path, lines, types) ==
    LET checks == SelectSeq(ChecksToRun(types),
                     LAMBDA n : n \in DOMAIN rules
                                /\ CheckApplies(rules[n], file_path))
    IN  Concat([c \in 1..Len(checks) |->
           Concat([p \in 1..Len(Get(rules[checks[c]], "patterns", << >>)) |->
              [n \in 1..Len(lines) |->
                 [check_name |-> checks[c],
                  pattern_config |-> rules[checks[c]].patterns[p],
                  line_num |-> n]]])])

\* the scan from probe i on: the findings appended and the exception that
\* ended it, None when it ran to its end.  re.search raises re.error for a
\* pattern that does not compile; line 157 raises IndexError for an absolute
\* path, which has one part more than it has parents
RECURSIVE ScanFrom(_, _, _, _)
ScanFrom(probes, i, file_path, lines) ==
    IF i > Len(probes) THEN [out |-> << >>, raised |-> None]
    ELSE LET q == probes[i]
             line == lines[q.line_num]
             check_config == rules[q.check_name]
         IN  IF ~Compiles(q.pattern_config.regex)
             THEN [out |-> << >>, raised |-> ReError]
             ELSE IF ~ReSearch(q.pattern_config.regex, line)
                     \/ is_allowed_context(file_path, line, lines, q.line_num, check_config)
             THEN ScanFrom(probes, i + 1, file_path, lines)
             ELSE IF IsAbsolute(file_path)
             THEN [out |-> << >>, raised |-> "IndexError"]
             ELSE LET rest == ScanFrom(probes, i + 1, file_path, lines)
                  IN  [out |-> <<Finding(PatternSeverity(q.pattern_config, check_config),
                                         file_path, q.line_num, q.check_name,
                                         Message(IF q.pattern_config.kind = "dict"
                                                 THEN Get(q.pattern_config, "message",
                                                          "Pattern match")
                                                 ELSE "Matched pattern",
                                                 None, q.pattern_config.regex, 0),
                                         StrStrip(line))>> \o rest.out,
                       raised |-> rest.raised]

\* validate_file on the next file; an exception of a check is not caught and
\* ends the program with a traceback and exit status 1
ValidateFile ==
    /\ pc = "vscan"
    /\ file_idx <= Len(python_files)
    /\ LET f == python_files[file_idx]
           file_path == JoinPath(directory, f.rel)
           r == IF f.readable
                THEN ScanFrom(FileProbes(file_path, f.lines, check_types), 1,
                              file_path, f.lines)
                ELSE [out |-> << >>, raised |-> None]
       IN  /\ findings' = findings \o r.out
           /\ pc' = IF r.raised # None THEN "vcrashed" ELSE pc
           /\ exit_code' = IF r.raised # None THEN 1 ELSE exit_code
    /\ file_idx' = file_idx + 1
    /\ UNCHANGED <<probe, directory, check_types, python_files, rules, modules,
                   dependency_graph, violations>>

\* the value print_summary returns: << >> for None, <<n>> for the int n
SummaryResult(fs) ==
    IF fs = << >> THEN << >>
    ELSE IF \E i \in 1..Len(fs) : fs[i].severity = "ERROR" THEN <<1>> ELSE <<0>>

\* the exit status sys.exit(value) gives
SysExit(value) == IF value = << >> THEN 0 ELSE value[1]

\* validate_directory returns; print_summary, whose value main hands to sys.exit
PrintSummary ==
    /\ pc = "vscan"
    /\ file_idx > Len(python_files)
    /\ exit_code' = SysExit(SummaryResult(findings))
    /\ pc' = "vdone"
    /\ UNCHANGED <<probe, directory, check_types, python_files, rules, modules,
                   dependency_graph, violations, findings, file_idx>>

\* validate_directory followed by print_summary
ValidatorNext ==
    \/ FilterExcluded
    \/ ValidateFile
    \/ PrintSummary

\* the state after CodeValidator.__init__
ValidatorStart ==
    /\ pc = "vglob"
    /\ file_idx = 1
    /\ modules = << >>
    /\ dependency_graph = [keys |-> << >>, adj |-> EmptyDict]
    /\ violations = << >>
    /\ findings = << >>
    /\ exit_code = 0
    /\ probe = NoProbe

(***************************************************************************)
(* Corpora and rule files for the allowed-context exceptions.              *)
(***************************************************************************)
FileTestsA == <<"t", "e", "s", "t", "s", "/", "a", ".", "p", "y">>

\* the lines of a file: 'm' is what the validation pattern matches, '#' the
\* allowed-context sentinel
LineTexts == {<<"m", "\n">>, <<"#", "\n">>, <<"o", "\n">>, <<"m", "#", "\n">>}

\* the sequences over S of length at most n
SeqsUpTo(S, n) == UNION {[1..k -> S] : k \in 0..n}

\* the directory argument of the validator: '.', 'p' or '/p'
ValidatorDirectories == {<< >>, <<"p">>, <<"/", "p">>}

\* the 'allowed_contexts' sections
SentinelContext == <<[pattern |-> <<"#">>]>>
TestsContext == <<[pattern |-> <<"t", "e", "s", "t", "s", "/">>], [pattern |-> <<"#">>]>>

\* a check configuration with the optional key context_lines
ContextCheck(allowed, context_lines) ==
    LET base == [severity |-> "ERROR",
                 patterns |-> <<[kind |-> "bare", regex |-> <<"m">>]>>,
                 allowed_contexts |-> allowed]
    IN  IF context_lines < 0 THEN base ELSE base @@ ("context_lines" :> context_lines)

\* a second file, of one matching line
OtherFile == [rel |-> FileB, readable |-> TRUE, lines |-> <<(<<"m", "\n">>)>>]

InitContext ==
    /\ ValidatorStart
    /\ directory \in ValidatorDirectories
    /\ check_types = << >>
    /\ \E allowed \in {SentinelContext, TestsContext, << >>} :
       \E context_lines \in -1..2 :
          rules = ("unsafe_fallbacks" :> ContextCheck(allowed, context_lines))
    /\ \E rel \in {FileA, FileTestsA} :
       \E lines \in SeqsUpTo(LineTexts, MaxFileLines) :
       \E others \in {<< >>, <<OtherFile>>} :
          python_files = others \o <<[rel |-> rel, readable |-> TRUE, lines |-> lines]>>

SpecContext == InitContext /\ [][ValidatorNext]_vars

\* the run of the validator is over: print_summary returned or an exception
\* ended the program
ValidatorEnded == pc \in {"vdone", "vcrashed"}

\* a finding of a check exists for a line of a file
HasFinding(file_path, check_name, line_num) ==
    \E i \in 1..Len(findings) :
        /\ findings[i].file_path = file_path
        /\ findings[i].rule_name = check_name
        /\ findings[i].line_number = line_num

\* the distance of two line numbers
Distance(n, m) == IF n >= m THEN n - m ELSE m - n

\* the suppression rule of C5 for line n of a file: an allowed-context pattern
\* on line n itself or on a line at most context_lines away, or the 'tests/'
\* exception
SuppressedByContext(file_path, lines, n, check_config) ==
    LET allowed == Get(check_config, "allowed_contexts", << >>)
        context_lines == Get(check_config, "context_lines", 2)
    IN  \E c \in 1..Len(allowed) :
           \/ StrIn(allowed[c].pattern, lines[n])
           \/ \E m \in 1..Len(lines) :
                 Distance(n, m) <= context_lines /\ StrIn(allowed[c].pattern, lines[m])
           \/ (allowed[c].pattern = <<"t", "e", "s", "t", "s", "/">>
                 /\ StrIn(<<"t", "e", "s", "t", "s", "/">>, file_path))

\* for every line of every file that a pattern of a check matches: a finding
\* exists exactly when the suppression rule does not apply
ContextRuleHolds ==
    \A f \in Range(python_files) :
    \A check_name \in Range(AllChecks) \cap DOMAIN rules :
    \A p \in 1..Len(rules[check_name].patterns) :
    \A n \in 1..Len(f.lines) :
        ReSearch(rules[check_name].patterns[p].regex, f.lines[n]) =>
            (HasFinding(JoinPath(directory, f.rel), check_name, n)
                <=> ~SuppressedByContext(JoinPath(directory, f.rel), f.lines, n,
                                         rules[check_name]))

(***************************************************************************)
(* C5: a regex match on line n is suppressed when an allowed-context       *)
(* pattern occurs on line n or on a line at most context_lines away, and   *)
(* the finding is emitted when every occurrence is farther away (and the   *)
(* 'tests/' exception does not apply).  For a file under an absolute       *)
(* directory the finding is not emitted: building it raises IndexError     *)
(* (line 157) and the run ends.  C5_ContextWindow is violated.             *)
(***************************************************************************)
C5_ContextWindow == ValidatorEnded => ContextRuleHolds

(***************************************************************************)
(* C5 for relative directories, where line 157 does not raise: the window  *)
(* of is_allowed_context is the one the claim states.                      *)
(***************************************************************************)
C5_ContextWindowRelativePath ==
    (ValidatorEnded /\ ~IsAbsolute(directory)) => ContextRuleHolds

(***************************************************************************)
(* Whole runs of both programs, up to the value handed to sys.exit.        *)
(***************************************************************************)
\* file contents of one, two and three lines
RunContents == {<< >>, <<"d", "\n">>, <<"d", "\n", "\n">>}

\* the 'duplicate_logic' sections: none, one pattern, a pattern that does not
\* compile before a good one, a pattern without regex
DuplicateConfigs ==
    { EmptyDict,
      [threshold |-> 1, patterns |-> <<[name |-> "dup", regex |-> <<"d">>]>>],
      [threshold |-> 2, patterns |-> <<[name |-> "bad", regex |-> <<"*">>],
                                       [name |-> "dup", regex |-> <<"d">>]>>],
      [patterns |-> <<[name |-> "noregex"]>>] }

InitRunAnalyzer ==
    /\ AnalyzerStart
    /\ directory = << >>
    /\ \E dup \in DuplicateConfigs :
          rules = [NoRules EXCEPT
                      !.complexity_thresholds =
                          [lines |-> [warning |-> 1, error |-> 2], methods |-> EmptyDict],
                      !.duplicate_logic = dup]
    /\ \E names \in UNION {Orders(S) : S \in SUBSET {FileA, FileB} \ {{}}} :
       \E contents \in [Range(names) -> RunContents] :
          python_files =
             [i \in 1..Len(names) |->
                [rel |-> names[i], parses |-> TRUE, imports |-> << >>,
                 functions |-> << >>, content |-> contents[names[i]]]]

\* the pattern lists of a check: one pattern, a pattern that does not compile
\* before or after a good one, two good ones
PatternLists ==
    { <<[kind |-> "bare", regex |-> <<"m">>]>>,
      <<[kind |-> "bare", regex |-> <<"*">>], [kind |-> "bare", regex |-> <<"m">>]>>,
      <<[kind |-> "dict", regex |-> <<"m">>, severity |-> "INFO", message |-> "found m"],
        [kind |-> "bare", regex |-> <<"[">>]>>,
      <<[kind |-> "bare", regex |-> <<"#">>], [kind |-> "dict", regex |-> <<"m">>]>> }

\* the configuration of the check 'code_quality', for files named a.py only
QualityCheck ==
    [severity |-> "INFO",
     files |-> <<FileA>>,
     patterns |-> <<[kind |-> "bare", regex |-> <<"o">>]>>]

\* the configurations of the check 'unsafe_fallbacks'
FallbackChecks ==
    {[patterns |-> ps, allowed_contexts |-> allowed] :
        ps \in PatternLists, allowed \in {<< >>, SentinelContext}}
    \cup
    {[severity |-> "ERROR", patterns |-> ps, allowed_contexts |-> allowed] :
        ps \in PatternLists, allowed \in {<< >>, SentinelContext}}

\* a file that cannot be read, and a file under an excluded directory
UnreadableFile == [rel |-> FileC, readable |-> FALSE, lines |-> << >>]
ExcludedFile == [rel |-> FileTestsA, readable |-> TRUE, lines |-> <<(<<"m", "\n">>)>>]

InitRunValidator ==
    /\ ValidatorStart
    /\ directory \in {<< >>, <<"/", "p">>}
    /\ check_types \in {<< >>, <<"fallbacks">>}
    /\ \E fallback \in FallbackChecks :
          rules = ("global_excludes" :> [directories |-> <<(<<"t", "e", "s", "t", "s">>)>>])
                  @@ ("unsafe_fallbacks" :> fallback)
                  @@ ("code_quality" :> QualityCheck)
    /\ \E lines \in SeqsUpTo(LineTexts, MaxRunLines) :
          LET f == [rel |-> FileA, readable |-> TRUE, lines |-> lines]
          IN  python_files \in {<<f>>, <<OtherFile, f>>, <<f, OtherFile>>,
                                <<UnreadableFile, f>>, <<ExcludedFile, f>>}

RunNext == AnalyzerNext \/ ValidatorNext

SpecRun == (InitRunAnalyzer \/ InitRunValidator) /\ [][RunNext]_vars

(***************************************************************************)
(* C6: when print_violations or print_summary has returned, the exit       *)
(* status is 1 if the finding list holds an ERROR finding and 0 otherwise  *)
(* (an empty list, or WARNING and INFO findings only).                     *)
(***************************************************************************)
C6_FailIffError ==
    /\ pc = "done" =>
          /\ exit_code \in {0, 1}
          /\ exit_code = 1 <=> \E i \in 1..Len(violations) : violations[i].severity = "ERROR"
    /\ pc = "vdone" =>
          /\ exit_code \in {0, 1}
          /\ exit_code = 1 <=> \E i \in 1..Len(findings) : findings[i].severity = "ERROR"

\* print_violations returned 0 for a list of WARNING and INFO findings
C6_Witness ==
    /\ pc = "done"
    /\ exit_code = 0
    /\ \E i \in 1..Len(violations) : violations[i].severity = "WARNING"
    /\ \E i \in 1..Len(violations) : violations[i].severity = "INFO"

\* the rule identifiers in ascending order
RuleOrder ==
    <<"code_quality", "duplicate_logic", "no_circular_dependencies",
      "no_layer_skipping", "single_responsibility", "unsafe_fallbacks">>

\* the position of a rule identifier in that order
RuleRank(rule) == CHOOSE i \in 1..Len(RuleOrder) : RuleOrder[i] = rule

\* (file path, line number, rule identifier) of x precedes that of y
KeyLess(pathx, linex, rulex, pathy, liney, ruley) ==
    \/ StrLess(pathx, pathy)
    \/ pathx = pathy /\ linex < liney
    \/ pathx = pathy /\ linex = liney /\ RuleRank(rulex) < RuleRank(ruley)

(***************************************************************************)
(* C7: the finding list handed to the reporter is sorted by file path,     *)
(* then line number, then rule identifier.  Neither program sorts: the     *)
(* lists are in the order of emission.  C7_SortedFindings is violated.     *)
(***************************************************************************)
C7_SortedFindings ==
    /\ pc \in {"report", "done"} =>
          \A i, j \in 1..Len(violations) :
              i < j => ~KeyLess(violations[j].file_path, 0, violations[j].rule,
                                violations[i].file_path, 0, violations[i].rule)
    /\ pc = "vdone" =>
          \A i, j \in 1..Len(findings) :
              i < j => ~KeyLess(findings[j].file_path, findings[j].line_number,
                                findings[j].rule_name,
                                findings[i].file_path, findings[i].line_number,
                                findings[i].rule_name)

\* the checks validate_file runs on a file
ChecksRunOn(file_path) ==
    {n \in Range(ChecksToRun(check_types)) :
        n \in DOMAIN rules /\ CheckApplies(rules[n], file_path)}

(***************************************************************************)
(* C8: a regex that does not compile makes only its own rule be skipped:   *)
(* the run does not abort, and every other pattern, check and file still   *)
(* gives its findings.  check_duplicate_logic swallows the exception, but  *)
(* in run_check re.error is not caught and ends the program.               *)
(* C8_BadRuleSkipped is violated.                                          *)
(***************************************************************************)
C8_BadRuleSkipped ==
    /\ (pc \in {"vscan", "vdone", "vcrashed"} /\ ~IsAbsolute(directory)) =>
          /\ pc # "vcrashed"
          /\ pc = "vdone" =>
                \A f \in Range(python_files) :
                \A check_name \in ChecksRunOn(JoinPath(directory, f.rel)) :
                \A p \in 1..Len(rules[check_name].patterns) :
                \A n \in 1..Len(f.lines) :
                    LET regex == rules[check_name].patterns[p].regex
                    IN  (/\ f.readable
                         /\ Compiles(regex)
                         /\ ReSearch(regex, f.lines[n])
                         /\ ~SuppressedByContext(JoinPath(directory, f.rel), f.lines, n,
                                                 rules[check_name]))
                        => HasFinding(JoinPath(directory, f.rel), check_name, n)
    /\ pc \in {"report", "done"} =>
          LET patterns == Get(rules.duplicate_logic, "patterns", << >>)
          IN  \A p \in 1..Len(patterns) :
                 ("regex" \in DOMAIN patterns[p] /\ Compiles(patterns[p].regex)) =>
                    LET hits == {m \in Range(modules) :
                                    ReSearch(patterns[p].regex, ContentOf(m))}
                    IN  Cardinality(hits) >= Get(rules.duplicate_logic, "threshold", 3) =>
                           \A m \in hits :
                              \E i \in 1..Len(violations) :
                                 /\ violations[i].rule = "duplicate_logic"
                                 /\ violations[i].file_path = m.name
                                 /\ violations[i].message.name = patterns[p].name

====
